---------------------------- MODULE Spec2Model ----------------------------
(***************************************************************************)
(* A model of convex_qsr/error_correction.py: the ErrorCorrection class    *)
(* (position tally, candidate pairs, pooled covariation test, multiple     *)
(* testing correction, read corrector, k-mer filter) and the worker        *)
(* function partial_covariation_test.                                      *)
(*                                                                         *)
(* Conventions.                                                            *)
(*  - A read is a record [query_name, reference_start, cigartuples,        *)
(*    query, flag, tags]; cigartuples is a sequence of <<op, stride>>      *)
(*    with op 0 = match, 1 = insertion, 2 = deletion; query is the         *)
(*    aligned query sequence.  Cigars start and end with a match, and the  *)
(*    query holds exactly the bases the match and insertion operations     *)
(*    consume, as in a well-formed alignment file.                         *)
(*  - Python sequences are 0-based; TLA+ sequences are 1-based.  Reference *)
(*    positions keep the program's 0-based values; only the index into a   *)
(*    sequence is shifted by one.                                          *)
(*  - A p-value is an exact fraction <<numerator, denominator>>; the FDR   *)
(*    is a fraction too, so that the Benjamini-Hochberg comparison is      *)
(*    computed by cross multiplication.                                    *)
(*  - An attribute that may be None holds None or Some(value); The(x) is   *)
(*    the value.                                                           *)
(***************************************************************************)
EXTENDS Integers, Sequences, FiniteSets, TLC

VARIABLES
    reads,             \* pysam_alignment.fetch(): the reads, in file order
    reference_length,  \* self.reference_length
    end_correction,    \* self.end_correction
    nucleotide_counts, \* self.nucleotide_counts (None until computed)
    pairs,             \* self.pairs (None until computed)
    all_cv_tests,      \* self.all_cv_tests (None, or the table of test rows)
    covarying_sites,   \* self.covarying_sites (None, or a sorted sequence)
    cutoff,            \* local `cutoff` of the last multiple_testing_correction
    arguments,         \* full_covariation_test: the blocks handed to the pool
    taskState,         \* the pool: per block "queued", "running" or "done"
    outqueue,          \* the pool: <<block index, result>> in completion order
    caller,            \* who awaits the pool: "fct" or "corrected"
    emitted,           \* the reads yielded so far by the running generator
    cursor,            \* the running generator's position in fetch()
    call,              \* the arguments of the call in progress / last made
    pc                 \* "idle", "pool", "correcting", "filtering", "error"

vars == <<reads, reference_length, end_correction, nucleotide_counts, pairs,
          all_cv_tests, covarying_sites, cutoff, arguments, taskState,
          outqueue, caller, emitted, cursor, call, pc>>

\* Python's None, and a value that is not None.
None == <<>>
Some(x) == <<x>>
The(o) == o[1]

-----------------------------------------------------------------------------
(* Generic helpers                                                         *)

RECURSIVE SumSeq(_)
SumSeq(s) == IF s = <<>> THEN 0 ELSE Head(s) + SumSeq(Tail(s))

RECURSIVE Concat(_)
Concat(ss) == IF ss = <<>> THEN <<>> ELSE Head(ss) \o Concat(Tail(ss))

Range(s) == {s[i] : i \in DOMAIN s}

MaxOf(S) == CHOOSE x \in S : \A y \in S : y <= x

MinOf(S) == CHOOSE x \in S : \A y \in S : x <= y

Repeat(c, n) == [i \in 1..n |-> c]

\* The elements of a finite set of integers in ascending order.
RECURSIVE SortedSeq(_)
SortedSeq(S) == IF S = {} THEN <<>>
                ELSE LET m == MinOf(S) IN <<m>> \o SortedSeq(S \ {m})

-----------------------------------------------------------------------------
(* The alignment reader's view of a read (pysam.AlignedSegment)            *)

MATCH == 0
INSERTION == 1
DELETION == 2

\* read.reference_end: one past the last aligned reference position.
reference_end(read) ==
    read.reference_start
      + SumSeq([i \in DOMAIN read.cigartuples |->
                  IF read.cigartuples[i][1] \in {MATCH, DELETION}
                  THEN read.cigartuples[i][2] ELSE 0])

\* read.infer_query_length(): the query bases the CIGAR consumes.
infer_query_length(read) ==
    SumSeq([i \in DOMAIN read.cigartuples |->
              IF read.cigartuples[i][1] \in {MATCH, INSERTION}
              THEN read.cigartuples[i][2] ELSE 0])

\* read.query_length: the length of the stored query sequence.
query_length(read) == Len(read.query)

-----------------------------------------------------------------------------
(* ErrorCorrection.read_count_data                                         *)

\* The loop over the cigar tuples: `acc` is the concatenation of the
\* segments appended so far, `nseg` their number, `position` the offset in
\* the query.
RECURSIVE Segments(_, _, _, _, _)
Segments(read, i, position, nseg, acc) ==
    IF i > Len(read.cigartuples) THEN acc
    ELSE LET action == read.cigartuples[i][1]
             stride == read.cigartuples[i][2]
         IN  IF action = MATCH
             THEN Segments(read, i + 1, position + stride, nseg + 1,
                           acc \o SubSeq(read.query, position + 1,
                                         position + stride))
             ELSE IF action = INSERTION
             THEN Segments(read, i + 1, position + stride, nseg, acc)
             ELSE IF action = DELETION
             THEN IF nseg > 0
                  THEN Segments(read, i + 1, position, nseg + 1,
                                acc \o Repeat("-", stride))
                  ELSE Segments(read, i + 1, position, nseg, acc)
             ELSE Segments(read, i + 1, position, nseg, acc)

\* The `sequence` half of the result: one character per reference position.
read_count_sequence(read) == Segments(read, 1, 0, 0, <<>>)

\* The `positions` half of the result.
read_count_positions(read) ==
    LET sequence_length ==
          SumSeq([i \in DOMAIN read.cigartuples |->
                    IF read.cigartuples[i][1] # INSERTION
                    THEN read.cigartuples[i][2] ELSE 0])
    IN  [i \in 1..sequence_length |-> read.reference_start + i - 1]

-----------------------------------------------------------------------------
(* ErrorCorrection.get_nucleotide_counts                                   *)

characters == <<"A", "C", "G", "T", "-">>

\* read_count_data of every read of fetch(): data[r].sequence[i] is the
\* character read r shows at reference position data[r].positions[i].
ReadCountData(rds) ==
    [r \in DOMAIN rds |-> [sequence |-> read_count_sequence(rds[r]),
                           positions |-> read_count_positions(rds[r])]]

\* The character a read shows at `site`, or '~' when `site` is not one of
\* its positions.
CharAt(datum, site) ==
    LET i == site - datum.positions[1] + 1
    IN  IF i \in DOMAIN datum.sequence /\ i \in DOMAIN datum.positions
        THEN datum.sequence[i] ELSE "~"

\* The characters the reads show at `site`, one per read.
ColumnAt(data, site) == [r \in DOMAIN data |-> CharAt(data[r], site)]

\* counts[site, character_index] after the loop over fetch(): the reads
\* with positions[sequence == character] containing the site of `column`.
CountOf(column, character) ==
    Cardinality({r \in DOMAIN column : column[r] = character})

\* The loop `for character in characters[:-1]` that fills df['consensus']:
\* every base whose count equals nucleotide_max overwrites the column.
RECURSIVE ConsensusLoop(_, _, _, _)
ConsensusLoop(count, nucleotide_max, i, consensus) ==
    IF i > Len(characters) - 1 THEN consensus
    ELSE ConsensusLoop(count, nucleotide_max, i + 1,
                       IF nucleotide_max = count[characters[i]]
                       THEN characters[i] ELSE consensus)

\* supplementary_info: the four base counts in descending order (c1..c4).
RECURSIVE SortedDescending(_)
SortedDescending(cs) ==
    IF cs = <<>> THEN <<>>
    ELSE LET m == MaxOf(Range(cs))
             i == CHOOSE j \in DOMAIN cs : cs[j] = m
         IN  <<m>> \o SortedDescending(
                 [j \in 1..(Len(cs) - 1) |-> IF j < i THEN cs[j] ELSE cs[j + 1]])

\* One row of the table built by get_nucleotide_counts.  The frequencies
\* f1..f4 are the fractions <<c, coverage>>, or 0 when coverage is 0.
TallyRow(data, site) ==
    LET column == ColumnAt(data, site)
        count == [ch \in Range(characters) |-> CountOf(column, ch)]
        zeros(ch) == IF count[ch] = 0 THEN 1 ELSE 0
        zero_cols == zeros("A") + zeros("C") + zeros("G") + zeros("T")
        nucleotide_max == MaxOf({count["A"], count["C"], count["G"], count["T"]})
        coverage == count["A"] + count["C"] + count["G"] + count["T"]
        c == SortedDescending(<<count["A"], count["C"], count["G"], count["T"]>>)
    IN  [A |-> count["A"], C |-> count["C"], G |-> count["G"],
         T |-> count["T"], gap |-> count["-"],
         interesting |-> zero_cols < 3,
         nucleotide_max |-> nucleotide_max,
         coverage |-> coverage,
         consensus |-> ConsensusLoop(count, nucleotide_max, 1, "-"),
         c |-> c,
         f |-> [i \in 1..4 |-> IF coverage # 0 THEN <<c[i], coverage>>
                                               ELSE <<0, 1>>],
         covarying |-> None]

\* The whole table: one row per reference position 0..reference_length-1.
NucleotideCountsOf(rds, len) ==
    LET data == ReadCountData(rds)
    IN  [site \in 0..(len - 1) |-> TallyRow(data, site)]

\* self.get_nucleotide_counts() as called from the other methods: the
\* cached table, or a freshly computed one.
CountsAfterGet ==
    IF nucleotide_counts # None THEN The(nucleotide_counts)
    ELSE NucleotideCountsOf(reads, reference_length)

get_nucleotide_counts ==
    /\ pc = "idle"
    /\ nucleotide_counts = None
    /\ nucleotide_counts' = Some(CountsAfterGet)
    /\ call' = [method |-> "get_nucleotide_counts"]
    /\ UNCHANGED <<reads, reference_length, end_correction, pairs,
                   all_cv_tests, covarying_sites, cutoff, arguments,
                   taskState, outqueue, caller, emitted, cursor, pc>>

-----------------------------------------------------------------------------
(* ErrorCorrection.get_pairs                                               *)

\* it.combinations(items, 2) in its lexicographic order.
RECURSIVE Combinations2(_)
Combinations2(items) ==
    IF Len(items) < 2 THEN <<>>
    ELSE [j \in 1..(Len(items) - 1) |-> <<items[1], items[j + 1]>>]
           \o Combinations2(Tail(items))

WithinReadLength_strict(pair, max_read_length) ==
    pair[2] - pair[1] < max_read_length

\* The filter of get_pairs: the reference distance is at most the longest
\* read.
WithinReadLength(pair, max_read_length) == pair[2] - pair[1] <= max_read_length

\* counts.index[counts.interesting]: the interesting positions, ascending.
InterestingSites(counts) ==
    SortedSeq({site \in DOMAIN counts : counts[site].interesting})

PairsOf(counts, rds) ==
    LET max_read_length ==
          MaxOf({infer_query_length(rds[r]) : r \in DOMAIN rds})
        Keep(pair) == WithinReadLength(pair, max_read_length)
    IN  SelectSeq(Combinations2(InterestingSites(counts)), Keep)

\* `if self.pairs: return self.pairs`: None and the empty list both recompute.
PairsCached == pairs # None /\ The(pairs) # <<>>

\* max() of an empty list raises ValueError.
GetPairsRaises == ~PairsCached /\ reads = <<>>

\* self.get_pairs() as called from the other methods, on the tally
\* `counts` that its get_nucleotide_counts() returns.
PairsAfterGet(counts) ==
    IF PairsCached THEN The(pairs) ELSE PairsOf(counts, reads)

get_pairs ==
    /\ pc = "idle"
    /\ pairs = None
    /\ nucleotide_counts' = Some(CountsAfterGet)
    /\ IF GetPairsRaises
       THEN pc' = "error" /\ pairs' = pairs
       ELSE pc' = pc /\ pairs' = Some(PairsAfterGet(The(nucleotide_counts')))
    /\ call' = [method |-> "get_pairs"]
    /\ UNCHANGED <<reads, reference_length, end_correction, all_cv_tests,
                   covarying_sites, cutoff, arguments, taskState, outqueue,
                   caller, emitted, cursor>>

-----------------------------------------------------------------------------
(* Exact fractions: <<numerator, denominator>> with a positive denominator *)

FracLeq(x, y) == x[1] * y[2] <= y[1] * x[2]

FracLess(x, y) == x[1] * y[2] < y[1] * x[2]

-----------------------------------------------------------------------------
(* partial_covariation_test: the worker's function                         *)

\* MappedReads.sam_window_to_fasta: a dense matrix, one row per read and
\* one column per reference position, holding the read's character at the
\* position (a base, or '-' for a deleted position) and '~' where the read
\* does not cover the position.
sam_window_to_fasta(data, site) == ColumnAt(data, site)

RECURSIVE Binomial(_, _)
Binomial(n, k) ==
    IF k < 0 \/ k > n THEN 0
    ELSE IF k = 0 THEN 1
    ELSE (Binomial(n - 1, k - 1) * n) \div k

\* scipy.stats.fisher_exact(table)[1], two-sided: the total probability of
\* the tables with the same margins that are no more probable than the one
\* observed, as the fraction <<sum of their weights, sum of all weights>>.
fisher_exact(x_11, x_12, x_21, x_22) ==
    LET n == x_11 + x_12 + x_21 + x_22
        row1 == x_11 + x_12
        col1 == x_11 + x_21
        Weight(x) == Binomial(row1, x) * Binomial(n - row1, col1 - x)
        support == {x \in 0..n : Weight(x) > 0}
        extreme == {x \in support : Weight(x) <= Weight(x_11)}
        total[S \in SUBSET support] ==
            IF S = {} THEN 0
            ELSE LET x == CHOOSE y \in S : TRUE
                 IN  Weight(x) + total[S \ {x}]
    IN  <<total[extreme], total[support]>>

\* pd.Series(column).value_counts().drop('~'), then the index entries with
\* a positive count: the characters seen in the column, most frequent
\* first (equal counts in the order of `characters`).
RECURSIVE ByCount(_, _)
ByCount(column, chars) ==
    IF chars = {} THEN <<>>
    ELSE LET n(ch) == Cardinality({r \in DOMAIN column : column[r] = ch})
             rank(ch) == CHOOSE i \in DOMAIN characters : characters[i] = ch
             best == CHOOSE ch \in chars :
                        \A other \in chars :
                            \/ n(ch) > n(other)
                            \/ n(ch) = n(other) /\ rank(ch) <= rank(other)
         IN  <<best>> \o ByCount(column, chars \ {best})

CharsIn(column) == ByCount(column, Range(column) \ {"~"})

\* The rows the inner loop appends for one pair (col_i, col_j).
PairRows(data, col_i, col_j) ==
    LET column_i == sam_window_to_fasta(data, col_i)
        column_j == sam_window_to_fasta(data, col_j)
        i_chars == CharsIn(column_i)
        j_chars == CharsIn(column_j)
        valid == {r \in DOMAIN data : column_i[r] # "~" /\ column_j[r] # "~"}
        Row(i_char, j_char) ==
            LET x_11 == Cardinality({r \in valid : column_i[r] = i_char
                                                /\ column_j[r] = j_char})
                x_21 == Cardinality({r \in valid : column_i[r] # i_char
                                                /\ column_j[r] = j_char})
                x_12 == Cardinality({r \in valid : column_i[r] = i_char
                                                /\ column_j[r] # j_char})
                x_22 == Cardinality({r \in valid : column_i[r] # i_char
                                                /\ column_j[r] # j_char})
            IN  [col_i |-> col_i, col_j |-> col_j,
                 i_char |-> i_char, j_char |-> j_char,
                 x_11 |-> x_11, x_12 |-> x_12, x_21 |-> x_21, x_22 |-> x_22,
                 p_value |-> fisher_exact(x_11, x_12, x_21, x_22),
                 bh |-> None]
    IN  IF valid = {} THEN <<>>
        ELSE Concat([a \in DOMAIN i_chars |->
                       [b \in DOMAIN j_chars |-> Row(i_chars[a], j_chars[b])]])

\* The result of one block: the padding (None) is filtered out, and the
\* rows of the block's pairs follow each other in the block's order.
partial_covariation_test(rds, group) ==
    LET NotNone(x) == x # None
        ps == SelectSeq(group, NotNone)
        data == ReadCountData(rds)
    IN  Concat([n \in DOMAIN ps |-> PairRows(data, ps[n][1], ps[n][2])])

-----------------------------------------------------------------------------
(* ErrorCorrection.full_covariation_test and its process pool              *)

\* grouper(iterable, n): consecutive groups of n, the last one padded with
\* the fill value None.
grouper(iterable, n) ==
    LET blocks == (Len(iterable) + n - 1) \div n
    IN  [b \in 1..blocks |->
            [x \in 1..n |-> IF (b - 1) * n + x <= Len(iterable)
                            THEN iterable[(b - 1) * n + x] ELSE None]]

\* DataFrame.sort_values(by='p_value'): ascending, rows with equal p-values
\* in the order of the table they come from.
RECURSIVE InsertRow(_, _)
InsertRow(sorted, row) ==
    IF sorted = <<>> THEN <<row>>
    ELSE IF FracLess(row.p_value, Head(sorted).p_value)
         THEN <<row>> \o sorted
         ELSE <<Head(sorted)>> \o InsertRow(Tail(sorted), row)

RECURSIVE SortValues(_)
SortValues(table) ==
    IF table = <<>> THEN <<>>
    ELSE InsertRow(SortValues(SubSeq(table, 1, Len(table) - 1)),
                   table[Len(table)])

\* A result list in the order of arrival on the pool's result queue.
PoolMapResults_arrival(queue, n) == [i \in 1..n |-> queue[i][2]]

\* pool.map's result list: the result of block i at place i, whatever the
\* order in which the results arrived on the pool's result queue.
PoolMapResults(queue, n) ==
    [i \in 1..n |-> LET at == CHOOSE q \in DOMAIN queue : queue[q][1] = i
                    IN  queue[at][2]]

\* The synchronous head of full_covariation_test: up to pool.map.
full_covariation_test(block_size, ncpu) ==
    /\ pc = "idle"
    /\ covarying_sites = None
    /\ nucleotide_counts' = Some(CountsAfterGet)
    /\ call' = [method |-> "full_covariation_test",
                block_size |-> block_size, ncpu |-> ncpu]
    /\ IF GetPairsRaises
       THEN /\ pc' = "error"
            /\ UNCHANGED <<pairs, arguments, taskState, outqueue, caller>>
       ELSE /\ pairs' = Some(PairsAfterGet(The(nucleotide_counts')))
            /\ arguments' = grouper(The(pairs'), block_size)
            /\ taskState' = [b \in DOMAIN arguments' |-> "queued"]
            /\ outqueue' = <<>>
            /\ caller' = "fct"
            /\ pc' = "pool"
    /\ UNCHANGED <<reads, reference_length, end_correction, all_cv_tests,
                   covarying_sites, cutoff, emitted, cursor>>

\* A free worker process takes a block off the task queue.
WorkerPickup(b) ==
    /\ pc = "pool"
    /\ taskState[b] = "queued"
    /\ Cardinality({x \in DOMAIN taskState : taskState[x] = "running"})
         < call.ncpu
    /\ taskState' = [taskState EXCEPT ![b] = "running"]
    /\ UNCHANGED <<reads, reference_length, end_correction, nucleotide_counts,
                   pairs, all_cv_tests, covarying_sites, cutoff, arguments,
                   outqueue, caller, emitted, cursor, call, pc>>

\* The worker returns the block's table, which joins the result queue.
WorkerFinish(b) ==
    /\ pc = "pool"
    /\ taskState[b] = "running"
    /\ taskState' = [taskState EXCEPT ![b] = "done"]
    /\ outqueue' = Append(outqueue,
                          <<b, partial_covariation_test(reads, arguments[b])>>)
    /\ UNCHANGED <<reads, reference_length, end_correction, nucleotide_counts,
                   pairs, all_cv_tests, covarying_sites, cutoff, arguments,
                   caller, emitted, cursor, call, pc>>

PoolDone == \A b \in DOMAIN taskState : taskState[b] = "done"

\* pd.concat(result_dfs).sort_values(by='p_value'); pd.concat raises
\* ValueError on an empty list.
ConcatRaises(result_dfs) == result_dfs = <<>>

CombinedTable(queue, n) == SortValues(Concat(PoolMapResults(queue, n)))

-----------------------------------------------------------------------------
(* ErrorCorrection.multiple_testing_correction                             *)

\* The default of the fdr parameter: .001.
DefaultFdr == <<1, 1000>>

\* p_value <= fdr*rank/m for the row at 1-based rank `rank` of m rows.
BhHolds(p_value, fdr, rank, m) ==
    p_value[1] * fdr[2] * m <= fdr[1] * rank * p_value[2]

\* The column bh_corrected.
BhCorrected(table, fdr) ==
    [r \in DOMAIN table |-> BhHolds(table[r].p_value, fdr, r, Len(table))]

\* self.all_cv_tests['bh'] = bh_corrected
WithBh(table, fdr) ==
    [r \in DOMAIN table |-> [table[r] EXCEPT !.bh = Some(BhCorrected(table, fdr)[r])]]

\* (1-bh).to_numpy().nonzero()[0]: the 0-based indices of the rows that
\* violate the inequality, ascending.
Violations(table, fdr) ==
    SortedSeq({r - 1 : r \in {x \in DOMAIN table : ~BhCorrected(table, fdr)[x]}})

\* Taking element [0] of an empty array raises IndexError.
CutoffRaises(table, fdr) == Violations(table, fdr) = <<>>

CutoffOf(table, fdr) == Violations(table, fdr)[1]

ContributingRows_inclusive(table, cut) ==
    SubSeq(table, 1, IF cut + 1 <= Len(table) THEN cut + 1 ELSE Len(table))

\* .iloc[:cutoff]: the rows whose columns col_i and col_j are collected.
ContributingRows(table, cut) == SubSeq(table, 1, cut)

\* np.unique(np.concatenate([col_i, col_j])) of the contributing rows.
UniqueSites(rows) ==
    {rows[r].col_i : r \in DOMAIN rows} \cup {rows[r].col_j : r \in DOMAIN rows}

after_head_correction(site, correction) == site > correction

before_tail_correction(site, len, correction) == site < len - correction

\* covarying_sites[desired_sites], sorted.
DesiredSites(sites, len, correction) ==
    SortedSeq({site \in sites :
                  /\ after_head_correction(site, correction)
                  /\ before_tail_correction(site, len, correction)})

CovaryingSitesOf(table, fdr, len, correction) ==
    DesiredSites(UniqueSites(ContributingRows(table, CutoffOf(table, fdr))),
                 len, correction)

\* nucleotide_counts.loc[:, 'covarying'] = False, then True at the sites.
Stamped(counts, sites) ==
    [site \in DOMAIN counts |->
        [counts[site] EXCEPT !.covarying = Some(site \in Range(sites))]]

\* Where the method stops: "TypeError" (len of None), "IndexError" (no row
\* violates the inequality), "AttributeError" (no tally to stamp), or "ok".
MtcOutcome(table, counts, fdr) ==
    IF table = None THEN "TypeError"
    ELSE IF CutoffRaises(The(table), fdr) THEN "IndexError"
    ELSE IF counts = None THEN "AttributeError"
    ELSE "ok"

\* The effect of the method on the object, given the attribute
\* nucleotide_counts as it finds it (`counts`: None, or Some table, which
\* the caller may have just computed).
MtcEffect(counts, fdr) ==
    LET outcome == MtcOutcome(all_cv_tests, counts, fdr)
    IN  /\ all_cv_tests' = IF outcome = "TypeError" THEN all_cv_tests
                           ELSE Some(WithBh(The(all_cv_tests), fdr))
        /\ cutoff' = IF outcome \in {"TypeError", "IndexError"} THEN cutoff
                     ELSE Some(CutoffOf(The(all_cv_tests), fdr))
        /\ covarying_sites' =
             IF outcome \in {"TypeError", "IndexError"} THEN covarying_sites
             ELSE Some(CovaryingSitesOf(The(all_cv_tests), fdr,
                                        reference_length, end_correction))
        /\ nucleotide_counts' =
             IF outcome = "ok"
             THEN Some(Stamped(The(counts), The(covarying_sites')))
             ELSE counts

multiple_testing_correction(fdr) ==
    /\ pc = "idle"
    /\ MtcEffect(nucleotide_counts, fdr)
    /\ pc' = IF MtcOutcome(all_cv_tests, nucleotide_counts, fdr) = "ok"
             THEN "idle" ELSE "error"
    /\ call' = [method |-> "multiple_testing_correction", fdr |-> fdr]
    /\ UNCHANGED <<reads, reference_length, end_correction, pairs, arguments,
                   taskState, outqueue, caller, emitted, cursor>>

-----------------------------------------------------------------------------
(* ErrorCorrection.corrected_reads                                         *)

\* The defaults of full_covariation_test, used when corrected_reads calls it.
DefaultBlockSize == 250

\* cpu_count() of the machine the model runs the pool on.
CpuCount == 2

\* `not self.covarying_sites`: None and an empty array are falsy, an array
\* of one site is as truthy as the site is non-zero, and the truth value of
\* a longer array raises ValueError.
TruthRaises(sites) == sites # None /\ Len(The(sites)) >= 2

Truthy(sites) ==
    sites # None /\ Len(The(sites)) = 1 /\ The(sites)[1] # 0

\* covarying_sites[(covarying_sites >= start) & (covarying_sites < end)]
IntrareadCovaryingSites(sites, read) ==
    LET Inside(site) == /\ site >= read.reference_start
                        /\ site < reference_end(read)
    IN  SelectSeq(sites, Inside)

\* The masking with local_consensus taken from position 0 rather than from
\* the start of the read.
Masked_unshifted(sequence, read, sites, counts) ==
    LET intraread == IntrareadCovaryingSites(sites, read)
        mask == [i \in DOMAIN sequence |->
                    (read.reference_start + i - 1) \notin Range(intraread)]
    IN  [i \in DOMAIN sequence |->
            IF mask[i] THEN counts[i - 1].consensus ELSE sequence[i]]

\* The masking with a mask that is True everywhere.
Masked_everywhere(sequence, read, sites, counts) ==
    [i \in DOMAIN sequence |-> counts[read.reference_start + i - 1].consensus]

\* sequence[mask] = local_consensus[mask]: every position of the read that
\* is not one of its covarying sites takes the consensus of the position.
Masked(sequence, read, sites, counts) ==
    LET intraread == IntrareadCovaryingSites(sites, read)
        mask == [i \in DOMAIN sequence |->
                    (read.reference_start + i - 1) \notin Range(intraread)]
    IN  [i \in DOMAIN sequence |->
            IF mask[i] THEN counts[read.reference_start + i - 1].consensus
            ELSE sequence[i]]

\* nucleotide_counts.consensus[from: to], a positional slice.
ConsensusSlice(counts, from, to, len) ==
    LET last == IF to < len THEN to ELSE len
    IN  [i \in 1..(IF last > from THEN last - from ELSE 0) |->
            counts[from + i - 1].consensus]

\* sequence[0: query_index] = query_correction.  The two lengths differ
\* when the read ends inside the head region; numpy then raises ValueError.
HeadTargetLength(sequence, read, correction) ==
    LET query_index == correction - read.reference_start
    IN  IF query_index < Len(sequence) THEN query_index ELSE Len(sequence)

HeadRaises(sequence, read, counts, correction, len) ==
    /\ read.reference_start < correction
    /\ Len(ConsensusSlice(counts, read.reference_start, correction, len))
         # HeadTargetLength(sequence, read, correction)

HeadCorrected(sequence, read, counts, correction, len) ==
    IF read.reference_start < correction
    THEN LET query_correction ==
               ConsensusSlice(counts, read.reference_start, correction, len)
         IN  [i \in DOMAIN sequence |->
                 IF i <= HeadTargetLength(sequence, read, correction)
                 THEN query_correction[i] ELSE sequence[i]]
    ELSE sequence

\* sequence[-correction_length:] = query_correction, likewise.
TailTargetLength(sequence, read, tail_cutoff) ==
    LET correction_length == reference_end(read) - tail_cutoff
    IN  IF correction_length < Len(sequence) THEN correction_length
        ELSE Len(sequence)

TailRaises(sequence, read, counts, tail_cutoff, len) ==
    /\ reference_end(read) > tail_cutoff
    /\ Len(ConsensusSlice(counts, tail_cutoff, reference_end(read), len))
         # TailTargetLength(sequence, read, tail_cutoff)

TailCorrected(sequence, read, counts, tail_cutoff, len) ==
    IF reference_end(read) > tail_cutoff
    THEN LET query_correction ==
               ConsensusSlice(counts, tail_cutoff, reference_end(read), len)
             target == TailTargetLength(sequence, read, tail_cutoff)
         IN  [i \in DOMAIN sequence |->
                 IF i > Len(sequence) - target
                 THEN query_correction[i - (Len(sequence) - target)]
                 ELSE sequence[i]]
    ELSE sequence

\* Whether the body of the loop raises for `read`.
CorrectionRaises(read, sites, counts, correction, len) ==
    LET masked == Masked(read_count_sequence(read), read, sites, counts)
    IN  /\ correction # 0
        /\ \/ HeadRaises(masked, read, counts, correction, len)
           \/ TailRaises(HeadCorrected(masked, read, counts, correction, len),
                         read, counts, len - correction, len)

\* The corrected sequence of `read`.
CorrectedSequence(read, sites, counts, correction, len) ==
    LET masked == Masked(read_count_sequence(read), read, sites, counts)
    IN  IF correction # 0
        THEN TailCorrected(
                 HeadCorrected(masked, read, counts, correction, len),
                 read, counts, len - correction, len)
        ELSE masked

\* The pysam.AlignedSegment the loop yields for `read`.
CorrectedRead(read, sites, counts, correction, len) ==
    LET sequence == CorrectedSequence(read, sites, counts, correction, len)
    IN  [query_name |-> read.query_name,
         query |-> sequence,
         flag |-> read.flag,
         reference_start |-> read.reference_start,
         cigartuples |-> <<<<MATCH, Len(sequence)>>>>,
         tags |-> read.tags]

\* The generator up to its loop, when it needs no pool: the covarying
\* sites are truthy and are used as they are, or their truth value raises,
\* or they are falsy but not None, so that full_covariation_test returns at
\* once and multiple_testing_correction runs with its default FDR.
CorrectedReadsBegin ==
    /\ pc = "idle"
    /\ covarying_sites # None
    /\ call' = [method |-> "corrected_reads"]
    /\ emitted' = <<>>
    /\ cursor' = 0
    /\ IF TruthRaises(covarying_sites)
       THEN /\ pc' = "error"
            /\ nucleotide_counts' = Some(CountsAfterGet)
            /\ UNCHANGED <<all_cv_tests, covarying_sites, cutoff>>
       ELSE IF Truthy(covarying_sites)
       THEN /\ pc' = "correcting"
            /\ nucleotide_counts' = Some(CountsAfterGet)
            /\ UNCHANGED <<all_cv_tests, covarying_sites, cutoff>>
       ELSE /\ MtcEffect(Some(CountsAfterGet), DefaultFdr)
            /\ pc' = IF MtcOutcome(all_cv_tests, Some(CountsAfterGet),
                                   DefaultFdr) = "ok"
                     THEN "correcting" ELSE "error"
    /\ UNCHANGED <<reads, reference_length, end_correction, pairs, arguments,
                   taskState, outqueue, caller>>

\* The generator up to pool.map, when covarying_sites is None: the whole
\* covariation test runs first, with the defaults of its parameters.
CorrectedReadsTest ==
    /\ pc = "idle"
    /\ covarying_sites = None
    /\ nucleotide_counts' = Some(CountsAfterGet)
    /\ call' = [method |-> "corrected_reads",
                block_size |-> DefaultBlockSize, ncpu |-> CpuCount]
    /\ emitted' = <<>>
    /\ cursor' = 0
    /\ IF GetPairsRaises
       THEN /\ pc' = "error"
            /\ UNCHANGED <<pairs, arguments, taskState, outqueue, caller>>
       ELSE /\ pairs' = Some(PairsAfterGet(The(nucleotide_counts')))
            /\ arguments' = grouper(The(pairs'), DefaultBlockSize)
            /\ taskState' = [b \in DOMAIN arguments' |-> "queued"]
            /\ outqueue' = <<>>
            /\ caller' = "corrected"
            /\ pc' = "pool"
    /\ UNCHANGED <<reads, reference_length, end_correction, all_cv_tests,
                   covarying_sites, cutoff>>

\* pool.map returns: the tail of full_covariation_test, and, when
\* corrected_reads made the call, its multiple_testing_correction().
PoolCollect ==
    /\ pc = "pool"
    /\ PoolDone
    /\ IF ConcatRaises(PoolMapResults(outqueue, Len(arguments)))
       THEN /\ pc' = "error"
            /\ UNCHANGED <<all_cv_tests, covarying_sites, cutoff,
                           nucleotide_counts>>
       ELSE IF caller = "fct"
       THEN /\ all_cv_tests' = Some(CombinedTable(outqueue, Len(arguments)))
            /\ pc' = "idle"
            /\ UNCHANGED <<covarying_sites, cutoff, nucleotide_counts>>
       ELSE LET table == CombinedTable(outqueue, Len(arguments))
                outcome == MtcOutcome(Some(table), nucleotide_counts,
                                      DefaultFdr)
            IN  /\ all_cv_tests' = Some(WithBh(table, DefaultFdr))
                /\ pc' = IF outcome = "ok" THEN "correcting" ELSE "error"
                /\ IF outcome = "ok"
                   THEN /\ cutoff' = Some(CutoffOf(table, DefaultFdr))
                        /\ covarying_sites' =
                             Some(CovaryingSitesOf(table, DefaultFdr,
                                                   reference_length,
                                                   end_correction))
                        /\ nucleotide_counts' =
                             Some(Stamped(The(nucleotide_counts),
                                          The(covarying_sites')))
                   ELSE UNCHANGED <<covarying_sites, cutoff, nucleotide_counts>>
    /\ UNCHANGED <<reads, reference_length, end_correction, pairs, arguments,
                   taskState, outqueue, caller, emitted, cursor, call>>

\* One turn of the loop over fetch(): the next read is corrected and
\* yielded, or the correction raises.
CorrectedReadsYield ==
    /\ pc = "correcting"
    /\ cursor < Len(reads)
    /\ LET read == reads[cursor + 1]
       IN  IF CorrectionRaises(read, The(covarying_sites),
                               The(nucleotide_counts),
                               end_correction, reference_length)
           THEN pc' = "error" /\ UNCHANGED <<emitted, cursor>>
           ELSE /\ emitted' = Append(emitted,
                                CorrectedRead(read, The(covarying_sites),
                                              The(nucleotide_counts),
                                              end_correction, reference_length))
                /\ cursor' = cursor + 1
                /\ pc' = pc
    /\ UNCHANGED <<reads, reference_length, end_correction, nucleotide_counts,
                   pairs, all_cv_tests, covarying_sites, cutoff, arguments,
                   taskState, outqueue, caller, call>>

\* fetch() is exhausted: the generator returns.
CorrectedReadsEnd ==
    /\ pc = "correcting"
    /\ cursor = Len(reads)
    /\ pc' = "idle"
    /\ UNCHANGED <<reads, reference_length, end_correction, nucleotide_counts,
                   pairs, all_cv_tests, covarying_sites, cutoff, arguments,
                   taskState, outqueue, caller, emitted, cursor, call>>

-----------------------------------------------------------------------------
(* ErrorCorrection.simple_thresholding, kmers_in_reads, filtered_reads      *)

\* The default of simple_thresholding's threshold: .01.
DefaultThreshold == <<1, 100>>

\* (nucleotide_counts.loc[:, ['f1','f2','f3','f4']] > threshold).sum(axis=1)
AboveThreshold(row, threshold) ==
    Cardinality({i \in 1..4 : FracLess(threshold, row.f[i])})

\* The sites simple_thresholding stores in self.covarying_sites.
SimpleThresholdingSites(counts, threshold, correction) ==
    LET number_of_sites == Cardinality(DOMAIN counts)
    IN  DesiredSites({site \in DOMAIN counts :
                         AboveThreshold(counts[site], threshold) > 1},
                     number_of_sites, correction)

\* read.get_aligned_pairs(matches_only=True): <<query index, reference
\* position>> of every matched base, both 0-based.
RECURSIVE AlignedPairs(_, _, _, _)
AlignedPairs(read, i, qpos, rpos) ==
    IF i > Len(read.cigartuples) THEN <<>>
    ELSE LET action == read.cigartuples[i][1]
             stride == read.cigartuples[i][2]
         IN  IF action = MATCH
             THEN [x \in 1..stride |-> <<qpos + x - 1, rpos + x - 1>>]
                    \o AlignedPairs(read, i + 1, qpos + stride, rpos + stride)
             ELSE IF action = INSERTION
             THEN AlignedPairs(read, i + 1, qpos + stride, rpos)
             ELSE AlignedPairs(read, i + 1, qpos, rpos + stride)

get_aligned_pairs(read) == AlignedPairs(read, 1, 0, read.reference_start)

\* characters_at_cvs: the query bases matched to the read's covarying sites.
CharactersAtCvs(read, inter_read_cvs) ==
    LET AtCv(pair) == pair[2] \in Range(inter_read_cvs)
        matched == SelectSeq(get_aligned_pairs(read), AtCv)
    IN  [x \in DOMAIN matched |-> read.query[matched[x][1] + 1]]

\* range(len(inter_read_cvs) - k): the window starts the loop visits.
KmerStarts(inter_read_cvs, k) ==
    {i \in 0..(Len(inter_read_cvs) - 1) : i < Len(inter_read_cvs) - k}

\* ''.join(characters_at_cvs[i:i+k])
KmerAt(chars, i, k) ==
    SubSeq(chars, i + 1, IF i + k < Len(chars) THEN i + k ELSE Len(chars))

\* The entries <<site, kmer, read index>> that the loop over the reads
\* adds to kmer_dict: kmer_dict[site][kmer] lists the read.
KmerEntries(rds, sites, k) ==
    UNION {LET inter_read_cvs == IntrareadCovaryingSites(sites, rds[r])
               chars == CharactersAtCvs(rds[r], inter_read_cvs)
           IN  {<<inter_read_cvs[i + 1], KmerAt(chars, i, k), r>> :
                    i \in KmerStarts(inter_read_cvs, k)}
           : r \in DOMAIN rds}

\* skip_dict: the names of the reads listed under a k-mer whose list is
\* shorter than the cutoff.
SkipDict(rds, sites, k, kmer_cutoff) ==
    LET entries == KmerEntries(rds, sites, k)
        listed(site, kmer) == {e \in entries : e[1] = site /\ e[2] = kmer}
    IN  {rds[e[3]].query_name :
            e \in {x \in entries :
                      Cardinality(listed(x[1], x[2])) < kmer_cutoff}}

\* filtered_reads up to its last loop: simple_thresholding replaces the
\* covarying sites, and the reads to skip are collected.
FilteredReadsBegin(k, kmer_cutoff, minimum_length) ==
    /\ pc = "idle"
    /\ nucleotide_counts' = Some(CountsAfterGet)
    /\ covarying_sites' = Some(SimpleThresholdingSites(CountsAfterGet,
                                                       DefaultThreshold,
                                                       end_correction))
    /\ call' = [method |-> "filtered_reads", k |-> k,
                cutoff |-> kmer_cutoff, minimum_length |-> minimum_length,
                skip_dict |-> SkipDict(reads, The(covarying_sites'), k,
                                       kmer_cutoff)]
    /\ emitted' = <<>>
    /\ cursor' = 0
    /\ pc' = "filtering"
    /\ UNCHANGED <<reads, reference_length, end_correction, pairs,
                   all_cv_tests, cutoff, arguments, taskState, outqueue,
                   caller>>

\* One turn of the last loop: the read is yielded if it is valid.
FilteredReadsStep ==
    /\ pc = "filtering"
    /\ cursor < Len(reads)
    /\ LET read == reads[cursor + 1]
           should_not_skip == read.query_name \notin call.skip_dict
           long_enough == query_length(read) > call.minimum_length
       IN  emitted' = IF should_not_skip /\ long_enough
                      THEN Append(emitted, read) ELSE emitted
    /\ cursor' = cursor + 1
    /\ UNCHANGED <<reads, reference_length, end_correction, nucleotide_counts,
                   pairs, all_cv_tests, covarying_sites, cutoff, arguments,
                   taskState, outqueue, caller, call, pc>>

FilteredReadsEnd ==
    /\ pc = "filtering"
    /\ cursor = Len(reads)
    /\ pc' = "idle"
    /\ UNCHANGED <<reads, reference_length, end_correction, nucleotide_counts,
                   pairs, all_cv_tests, covarying_sites, cutoff, arguments,
                   taskState, outqueue, caller, emitted, cursor, call>>

\* simple_thresholding called on its own.
simple_thresholding ==
    /\ pc = "idle"
    /\ nucleotide_counts' = Some(CountsAfterGet)
    /\ covarying_sites' = Some(SimpleThresholdingSites(CountsAfterGet,
                                                       DefaultThreshold,
                                                       end_correction))
    /\ call' = [method |-> "simple_thresholding"]
    /\ UNCHANGED <<reads, reference_length, end_correction, pairs,
                   all_cv_tests, cutoff, arguments, taskState, outqueue,
                   caller, emitted, cursor, pc>>

-----------------------------------------------------------------------------
(* ErrorCorrection.__init__ and the inputs of the model                    *)

\* The object after construction on the alignment `rds` over a reference
\* of length `len`: `csv` is the table read from all_cv_tests (or None),
\* `correction` the value of end_correction (None becomes 0).
Constructed(rds, len, correction, csv) ==
    /\ reads = rds
    /\ reference_length = len
    /\ end_correction = correction
    /\ all_cv_tests = csv
    /\ covarying_sites = None
    /\ pairs = None
    /\ nucleotide_counts = None
    /\ cutoff = None
    /\ arguments = <<>>
    /\ taskState = <<>>
    /\ outqueue = <<>>
    /\ caller = "nobody"
    /\ emitted = <<>>
    /\ cursor = 0
    /\ call = [method |-> "__init__"]
    /\ pc = "idle"

\* Reads with the cigar `cigar` lying inside a reference of length `len`,
\* their bases drawn from `alphabet`.
ReadsWith(cigar, alphabet, len) ==
    LET shape == [reference_start |-> 0, cigartuples |-> cigar]
        span == reference_end(shape)
        qlen == infer_query_length(shape)
    IN  {[query_name |-> 0, reference_start |-> start, cigartuples |-> cigar,
          query |-> q, flag |-> 0, tags |-> <<>>] :
            start \in 0..(len - span), q \in [1..qlen -> alphabet]}

ReadsOver(cigars, alphabet, len) ==
    UNION {ReadsWith(cigar, alphabet, len) : cigar \in cigars}

MatchCigars(strides) == {<<<<MATCH, n>>>> : n \in strides}

DeletionCigars(strides) ==
    {<<<<MATCH, 1>>, <<DELETION, d>>, <<MATCH, 1>>>> : d \in strides}

InsertionCigars(strides) ==
    {<<<<MATCH, 1>>, <<INSERTION, n>>, <<MATCH, 1>>>> : n \in strides}

\* The alignments of at most `n` reads of `pool`, in a coordinate-sorted
\* file: the reads are in ascending order of reference_start, and every
\* read is named (and flagged and tagged) after its place in the file.
Alignments(pool, n) ==
    LET Sorted(rs) == \A i \in 1..(Len(rs) - 1) :
                          rs[i].reference_start <= rs[i + 1].reference_start
        Named(rs) == [i \in DOMAIN rs |->
                        [rs[i] EXCEPT !.query_name = i,
                                      !.flag = 16 * (i % 2),
                                      !.tags = <<<<"NM", i>>>>]]
    IN  {Named(rs) : rs \in {x \in UNION {[1..m -> pool] : m \in 0..n} :
                                Sorted(x)}}

-----------------------------------------------------------------------------
(* The position tally on its own                                           *)

TallyRefLen == 3
TallyMaxReads == 2
TallyMaxStride == 2

TallyReads ==
    ReadsOver(MatchCigars(1..TallyMaxStride) \cup DeletionCigars({1}),
              {"A", "C", "G", "T"}, TallyRefLen)

TallyAlignments == Alignments(TallyReads, TallyMaxReads)

TallyInit ==
    \E rds \in TallyAlignments : Constructed(rds, TallyRefLen, 0, None)

TallyNext == get_nucleotide_counts \/ get_pairs

SpecTally == TallyInit /\ [][TallyNext]_vars

\* C5: every row of the table built by get_nucleotide_counts has
\* coverage = A + C + G + T, and its consensus is the gap character when
\* the coverage is zero and otherwise the first base, in the order A, C,
\* G, T, whose count is the largest of the four.
C5_ConsensusIsFirstMaximum ==
    nucleotide_counts # None =>
        \A site \in DOMAIN The(nucleotide_counts) :
            LET row == The(nucleotide_counts)[site]
                count == [ch \in {"A", "C", "G", "T"} |->
                            CASE ch = "A" -> row.A [] ch = "C" -> row.C
                              [] ch = "G" -> row.G [] ch = "T" -> row.T]
                order == <<"A", "C", "G", "T">>
                largest == MaxOf({count[ch] : ch \in DOMAIN count})
                first == MinOf({i \in 1..4 : count[order[i]] = largest})
            IN  /\ row.coverage = row.A + row.C + row.G + row.T
                /\ row.consensus = IF row.coverage = 0 THEN "-"
                                   ELSE order[first]

-----------------------------------------------------------------------------
(* The candidate pairs                                                     *)

PairsRefLen == 4
PairsMaxReads == 2
PairsMaxStride == 2

PairsReads ==
    ReadsOver(MatchCigars(1..PairsMaxStride)
                \cup DeletionCigars(1..PairsMaxStride),
              {"A", "C"}, PairsRefLen)

PairsAlignments == Alignments(PairsReads, PairsMaxReads)

PairsInit ==
    \E rds \in PairsAlignments : Constructed(rds, PairsRefLen, 0, None)

PairsNext == get_nucleotide_counts \/ get_pairs

SpecPairs == PairsInit /\ [][PairsNext]_vars

\* The longest read of the alignment, by the length of its sequence.
LongestRead == MaxOf({Len(reads[r].query) : r \in DOMAIN reads})

\* C9: get_pairs returns exactly the pairs (i, j) of interesting positions
\* with i < j and j - i at most the length of the longest read, each of
\* them once, and no pair with a position that is not interesting.
C9_PairsAreTheCloseInterestingPairs ==
    pairs # None =>
        LET returned == The(pairs)
            counts == The(nucleotide_counts)
        IN  /\ \A n \in DOMAIN returned :
                  /\ Len(returned[n]) = 2
                  /\ returned[n][1] \in DOMAIN counts
                  /\ returned[n][2] \in DOMAIN counts
            /\ \A i, j \in DOMAIN counts :
                  (<<i, j>> \in Range(returned)) <=>
                      /\ counts[i].interesting
                      /\ counts[j].interesting
                      /\ i < j
                      /\ j - i <= LongestRead
            /\ Cardinality(Range(returned)) = Len(returned)

\* A state where get_pairs has returned and left out a pair of interesting
\* positions that lie further apart than the longest read.
C9_Witness ==
    /\ pairs # None
    /\ call.method = "get_pairs"
    /\ \E i, j \in DOMAIN The(nucleotide_counts) :
          /\ The(nucleotide_counts)[i].interesting
          /\ The(nucleotide_counts)[j].interesting
          /\ j - i > LongestRead
          /\ <<i, j>> \notin Range(The(pairs))

-----------------------------------------------------------------------------
(* The multiple testing correction of a table read from a file             *)

MtcRefLen == 4
MaxRows == 3
MaxEnd == 2
PScale == 2

\* The FDR values the correction is called with: the default, 1/2 and 1.
FdrValues == {DefaultFdr, <<1, 2>>, <<1, 1>>}

\* A row of a table read by pd.read_csv: a pair of neighbouring positions
\* and a p-value among 0, 1/PScale, ..., 1.
CsvRow(i, n) ==
    [col_i |-> i, col_j |-> i + 1, i_char |-> "A", j_char |-> "C",
     x_11 |-> 0, x_12 |-> 0, x_21 |-> 0, x_22 |-> 0,
     p_value |-> <<n, PScale>>, bh |-> None]

CsvRows(len) == {CsvRow(i, n) : i \in 0..(len - 2), n \in 0..PScale}

\* The tables of at most `n` rows, sorted ascending by p-value as
\* full_covariation_test leaves them.
CsvTables(len, n) ==
    LET Ascending(t) == \A r \in 1..(Len(t) - 1) :
                            FracLeq(t[r].p_value, t[r + 1].p_value)
    IN  {t \in UNION {[1..m -> CsvRows(len)] : m \in 0..n} : Ascending(t)}

MtcTables == CsvTables(MtcRefLen, MaxRows)

\* The alignment holds one read over the whole reference.
MtcAlignments ==
    Alignments(ReadsOver(MatchCigars({MtcRefLen}), {"A"}, MtcRefLen), 1)
        \ {<<>>}

MtcInit ==
    \E rds \in MtcAlignments, table \in MtcTables, correction \in 0..MaxEnd :
        Constructed(rds, MtcRefLen, correction, Some(table))

MtcNext ==
    \/ get_nucleotide_counts
    \/ \E fdr \in FdrValues : multiple_testing_correction(fdr)

SpecMtc == MtcInit /\ [][MtcNext]_vars

\* multiple_testing_correction has just returned normally.
MtcReturned == pc = "idle" /\ call.method = "multiple_testing_correction"

\* The 1-based rank of the first row that violates p <= q*rank/m, for the
\* FDR q of the last call.
FirstViolationRank ==
    LET table == The(all_cv_tests)
        m == Len(table)
        q == call.fdr
    IN  MinOf({r \in 1..m :
                  ~(table[r].p_value[1] * q[2] * m
                      <= q[1] * r * table[r].p_value[2])})

\* The positions of the row at rank r.
RowSites(r) == {The(all_cv_tests)[r].col_i, The(all_cv_tests)[r].col_j}

\* C1, as claimed: the rows that contribute positions are those at ranks
\* 1..r, r being the rank of the first violation, so r rows contribute.
C1_RowsThroughFirstViolation ==
    MtcReturned =>
        /\ The(cutoff) = FirstViolationRank
        /\ \A s \in RowSites(FirstViolationRank) :
              (s > end_correction /\ s < reference_length - end_correction)
                  => s \in Range(The(covarying_sites))

\* C1, amended: the rows that contribute positions are those at ranks
\* 1..r-1, strictly before the first violation, so r-1 rows contribute:
\* every covarying site comes from one of them, and each of their
\* positions that lies more than end_correction from both ends is covarying.
C1_RowsBeforeFirstViolation ==
    MtcReturned =>
        /\ The(cutoff) = FirstViolationRank - 1
        /\ \A s \in Range(The(covarying_sites)) :
              \E r \in 1..(FirstViolationRank - 1) : s \in RowSites(r)
        /\ \A r \in 1..(FirstViolationRank - 1) : \A s \in RowSites(r) :
              (s > end_correction /\ s < reference_length - end_correction)
                  => s \in Range(The(covarying_sites))

\* The correction returned with the first violation at rank 3: two rows
\* contributed, the violating row holds a position of its own, and
\* covarying sites were found.
C1_Witness ==
    /\ MtcReturned
    /\ FirstViolationRank = 3
    /\ The(covarying_sites) # <<>>
    /\ \E s \in RowSites(3) : s \notin RowSites(1) \cup RowSites(2)

\* C2: when every row satisfies p <= q*rank/m, the correction completes
\* normally and the covarying sites hold both positions of those rows
\* (those that end trimming keeps).
C2_AllRowsSignificantCompletes ==
    ( /\ call.method = "multiple_testing_correction"
      /\ nucleotide_counts # None
      /\ The(all_cv_tests) # <<>>
      /\ \A r \in DOMAIN The(all_cv_tests) :
            The(all_cv_tests)[r].bh = Some(TRUE) )
    => /\ pc # "error"
       /\ \A r \in DOMAIN The(all_cv_tests) : \A s \in RowSites(r) :
             (s > end_correction /\ s < reference_length - end_correction)
                 => s \in Range(The(covarying_sites))

\* C4: after the correction, a position of a contributing row is a
\* covarying site if and only if end_correction <= s < reference_length -
\* end_correction.
C4_TrimmingKeepsTheInside ==
    MtcReturned =>
        \A r \in 1..The(cutoff) : \A s \in RowSites(r) :
            (s \in Range(The(covarying_sites)))
                <=> (end_correction <= s
                       /\ s < reference_length - end_correction)

-----------------------------------------------------------------------------
(* The covariation test on its process pool                                *)

PoolRefLen == 3
PoolMaxReads == 3
MaxBlockSize == 2

\* Reads that cover the whole reference, over two bases.
PoolReads == ReadsOver(MatchCigars({PoolRefLen}), {"A", "C"}, PoolRefLen)

PoolAlignments == Alignments(PoolReads, PoolMaxReads)

PoolInit ==
    \E rds \in PoolAlignments : Constructed(rds, PoolRefLen, 0, None)

PoolNext ==
    \/ \E block_size \in 1..MaxBlockSize, ncpu \in 1..CpuCount :
          full_covariation_test(block_size, ncpu)
    \/ \E b \in DOMAIN taskState : WorkerPickup(b)
    \/ \E b \in DOMAIN taskState : WorkerFinish(b)
    \/ PoolCollect
    \/ multiple_testing_correction(DefaultFdr)

SpecPool == PoolInit /\ [][PoolNext]_vars

\* C3: with exactly one interesting position, full_covariation_test does
\* not end in an error.
C3_SingleInterestingPositionEndsNormally ==
    ( /\ call.method = "full_covariation_test"
      /\ Len(InterestingSites(The(nucleotide_counts))) = 1 )
    => pc # "error"

\* full_covariation_test has just returned normally.
TestReturned == pc = "idle" /\ call.method = "full_covariation_test"

\* The table each block of the last call returns.
BlockOutputs ==
    [b \in DOMAIN arguments |-> partial_covariation_test(reads, arguments[b])]

\* How many times `row` occurs in `table`.
Occurrences(table, row) ==
    Cardinality({i \in DOMAIN table : table[i] = row})

\* C8: whatever the order in which the workers pick up and finish the
\* blocks, the table full_covariation_test leaves is sorted ascending by
\* p-value, holds every row of every block exactly as often as the blocks
\* return it, and is the table obtained from the blocks taken in their
\* order of dispatch, so that it does not depend on the schedule.
C8_CombinedTableIndependentOfSchedule ==
    TestReturned =>
        LET table == The(all_cv_tests)
            union == Concat(BlockOutputs)
        IN  /\ \A r \in 1..(Len(table) - 1) :
                  FracLeq(table[r].p_value, table[r + 1].p_value)
            /\ Len(table) = Len(union)
            /\ \A row \in Range(union) :
                  Occurrences(table, row) = Occurrences(union, row)
            /\ table = SortValues(union)

\* The test returned after two or more blocks whose results arrived in
\* another order than the order of dispatch, and the table holds two
\* different p-values.
C8_Witness ==
    /\ TestReturned
    /\ Len(arguments) >= 2
    /\ \E q \in DOMAIN outqueue : outqueue[q][1] # q
    /\ \E r \in DOMAIN The(all_cv_tests) :
          FracLess(The(all_cv_tests)[1].p_value, The(all_cv_tests)[r].p_value)

-----------------------------------------------------------------------------
(* The k-mer filter                                                        *)

FilterRefLen == 3
FilterMaxReads == 3
MaxK == 2
MaxKmerCutoff == 2
MaxMinimumLength == 2

\* Reads without insertions or deletions, one or no base short of the
\* reference, over two bases.
FilterReads ==
    ReadsOver(MatchCigars((FilterRefLen - 1)..FilterRefLen), {"A", "C"},
              FilterRefLen)

FilterAlignments == Alignments(FilterReads, FilterMaxReads)

FilterInit ==
    \E rds \in FilterAlignments : Constructed(rds, FilterRefLen, 0, None)

FilterNext ==
    \/ \E k \in 1..MaxK, kmer_cutoff \in 1..MaxKmerCutoff,
          minimum_length \in 0..MaxMinimumLength :
          FilteredReadsBegin(k, kmer_cutoff, minimum_length)
    \/ FilteredReadsStep
    \/ FilteredReadsEnd

SpecFilter == FilterInit /\ [][FilterNext]_vars

\* Every window of k consecutive covarying sites within the span of
\* `read`, the last one included, as <<starting site, k-mer>>.
WindowsOf(read, k) ==
    LET inter_read_cvs == IntrareadCovaryingSites(The(covarying_sites), read)
        chars == CharactersAtCvs(read, inter_read_cvs)
    IN  {<<inter_read_cvs[i + 1], KmerAt(chars, i, k)>> :
            i \in 0..(Len(inter_read_cvs) - k)}

\* C6: no read that filtered_reads yields shows, in any window of k
\* consecutive covarying sites of its span, a k-mer that fewer than cutoff
\* reads show at the window's starting site.
C6_RareKmerReadsAreNotYielded ==
    call.method = "filtered_reads" =>
        \A e \in DOMAIN emitted : \A w \in WindowsOf(emitted[e], call.k) :
            Cardinality({r \in DOMAIN reads : w \in WindowsOf(reads[r], call.k)})
                >= call.cutoff

-----------------------------------------------------------------------------
(* The read corrector                                                      *)

CorrRefLen == 4
CorrMaxReads == 2
CorrMaxEnd == 1
CorrMaxInsert == 1

\* Reads over the whole reference or over two positions, reads with a
\* deletion, and reads with an insertion.
CorrReads ==
    ReadsOver(MatchCigars({2, CorrRefLen}), {"A", "C"}, CorrRefLen)
      \cup ReadsOver(DeletionCigars({1}), {"A", "C"}, CorrRefLen)
      \cup ReadsOver(InsertionCigars(1..CorrMaxInsert), {"A"}, CorrRefLen)

CorrAlignments == Alignments(CorrReads, CorrMaxReads)

\* No table, or a table read from a file: a row of p-value 0 followed by a
\* row of p-value 1.
CorrTables ==
    {None} \cup {Some(<<CsvRow(i, 0), CsvRow(j, PScale)>>) :
                    i \in 0..(CorrRefLen - 2), j \in 0..(CorrRefLen - 2)}

CorrInit ==
    \E rds \in CorrAlignments, csv \in CorrTables,
       correction \in 0..CorrMaxEnd :
        Constructed(rds, CorrRefLen, correction, csv)

CorrNext ==
    \/ simple_thresholding
    \/ multiple_testing_correction(DefaultFdr)
    \/ CorrectedReadsBegin
    \/ CorrectedReadsTest
    \/ \E b \in DOMAIN taskState : WorkerPickup(b)
    \/ \E b \in DOMAIN taskState : WorkerFinish(b)
    \/ PoolCollect
    \/ CorrectedReadsYield
    \/ CorrectedReadsEnd

SpecCorrect == CorrInit /\ [][CorrNext]_vars

\* corrected_reads is running or has returned: the reads it has yielded
\* are emitted[1], emitted[2], ..., made from reads[1], reads[2], ...
Correcting == call.method = "corrected_reads" /\ pc \in {"correcting", "idle"}

\* The consensus base of position p.
ConsensusAt(p) == The(nucleotide_counts)[p].consensus

\* The read shows the consensus base at every position of its span, and
\* no covarying site lies in its span.
AllConsensus(read) ==
    /\ \A i \in DOMAIN read_count_sequence(read) :
          read_count_sequence(read)[i]
              = ConsensusAt(read.reference_start + i - 1)
    /\ IntrareadCovaryingSites(The(covarying_sites), read) = <<>>

\* C7, as claimed: the sequence emitted for an all-consensus read without
\* covarying sites in its span is identical to the read's input sequence.
C7_AllConsensusReadIsUnchanged ==
    Correcting =>
        \A i \in DOMAIN emitted :
            AllConsensus(reads[i]) => emitted[i].query = reads[i].query

\* C7, amended: the sequence emitted for an all-consensus read without
\* covarying sites in its span is identical to the read's reference-resolved
\* sequence, which is the input sequence without its inserted bases.
C7_AllConsensusReadIsItsResolvedSequence ==
    Correcting =>
        \A i \in DOMAIN emitted :
            AllConsensus(reads[i])
                => emitted[i].query = read_count_sequence(reads[i])

\* An all-consensus read that starts after position 0, overlaps the head
\* region and carries an insertion has been emitted, on a reference whose
\* consensus is not the same base everywhere.
C7_Witness ==
    /\ Correcting
    /\ end_correction > 0
    /\ \E i \in DOMAIN emitted :
          /\ AllConsensus(reads[i])
          /\ reads[i].reference_start < end_correction
          /\ Len(reads[i].query) > Len(read_count_sequence(reads[i]))
    /\ \E i \in DOMAIN emitted :
          /\ AllConsensus(reads[i])
          /\ reads[i].reference_start > 0
          /\ \E p \in DOMAIN read_count_sequence(reads[i]) :
                ConsensusAt(p - 1) # ConsensusAt(reads[i].reference_start + p - 1)

\* Position p lies in the head or tail region that end correction
\* overwrites.
InTrimmedRegion(p) ==
    /\ end_correction > 0
    /\ p < end_correction \/ p >= reference_length - end_correction

\* C10: in every read corrected_reads emits, a position of the read's span
\* that is a covarying site outside the trimmed regions shows the read's
\* observed character and every other position shows the consensus base;
\* the output is as long as the read's reference-resolved sequence and
\* keeps the read's reference_start, query name, flag and tags.
C10_EmittedReadIsMaskedToConsensus ==
    Correcting =>
        \A i \in DOMAIN emitted :
            LET read == reads[i]
                observed == read_count_sequence(read)
                out == emitted[i]
            IN  /\ Len(out.query) = Len(observed)
                /\ out.reference_start = read.reference_start
                /\ out.query_name = read.query_name
                /\ out.flag = read.flag
                /\ out.tags = read.tags
                /\ \A x \in DOMAIN observed :
                      LET p == read.reference_start + x - 1
                      IN  out.query[x] =
                            IF /\ p \in Range(The(covarying_sites))
                               /\ ~InTrimmedRegion(p)
                            THEN observed[x] ELSE ConsensusAt(p)

\* With end correction on, a read that overlaps the head region has been
\* emitted with a covarying site of its span left at an observed character
\* other than the consensus base.
C10_Witness ==
    /\ Correcting
    /\ end_correction > 0
    /\ \E i \in DOMAIN emitted :
          /\ reads[i].reference_start < end_correction
          /\ \E x \in DOMAIN emitted[i].query :
                LET p == reads[i].reference_start + x - 1
                IN  /\ p \in Range(The(covarying_sites))
                    /\ emitted[i].query[x] # ConsensusAt(p)

=============================================================================
